---------------------------- MODULE Spec2Model ----------------------------
(***************************************************************************)
(* QdrantVectorStore (ragbits-core, vector_stores/qdrant.py) as a state    *)
(* machine over one Qdrant collection, together with the options overlay   *)
(* LLMOptions.__or__ (llms/clients/base.py), two store calls in flight at  *)
(* once, and the construction of rephrasers from a configuration           *)
(* (tests/unit/test_rephrasers.py).                                        *)
(*                                                                         *)
(* Values of different Python types are kept apart by records with         *)
(* different fields: None is [tag |-> "None"], the NotGiven sentinel is    *)
(* [tag |-> "NotGiven"], a number n is [n |-> n], a string s is [s |-> s], *)
(* a dict is [items |-> <<<<key, value>>, ...>>] in insertion order.       *)
(* A dict key is the sequence of its "."-separated segments, so that       *)
(* joining keys with "." is concatenation of sequences.                    *)
(* Distances and scores are fixed-point numbers, in tenths.                *)
(***************************************************************************)
EXTENDS Integers, Sequences, FiniteSets, TLC

(* ------------------------------ bounds -------------------------------- *)
MaxIds == 2
MaxBatch == 2
MaxLimit == 2
MaxFilterLen == 2
MaxN == 4

(* the literal 1 of `1 - merged_options.max_distance`, in tenths *)
One == 10

(* ------------------------------ values -------------------------------- *)
None == [tag |-> "None"]
NOT_GIVEN == [tag |-> "NotGiven"]
Num(n) == [n |-> n]
Str(s) == [s |-> s]
Dict(items) == [items |-> items]
ListValue(elems) == [elems |-> elems]

IsDict(v) == DOMAIN v = {"items"}

(* a value MatchValue accepts: cast(str | int | bool, value) *)
IsScalar(v) == DOMAIN v = {"s"} \/ DOMAIN v = {"n"}

(* Python truthiness of the values used in `x if v else y` and `v or y` *)
Truthy(v) ==
    IF v = None \/ v = NOT_GIVEN THEN FALSE
    ELSE IF DOMAIN v = {"n"} THEN v.n # 0
    ELSE IF DOMAIN v = {"s"} THEN v.s # ""
    ELSE IF DOMAIN v = {"items"} THEN v.items # <<>>
    ELSE TRUE

Range(f) == {f[i] : i \in DOMAIN f}

(* ------------------------------ entries ------------------------------- *)
Ids == 1..MaxIds

TEXT == "text"
IMAGE == "image"

MetaX == Dict(<< <<(<<"category">>), Dict(<< <<(<<"sub">>), Str("x")>> >>)>> >>)
MetaY == Dict(<< <<(<<"category">>), Dict(<< <<(<<"sub">>), Str("y")>> >>)>> >>)
Metas == {MetaX, MetaY}

Texts == {None, Str("the cat sat")}
Images == {None, Str("png")}

(* an entry carries its text or its image: one payload, the other None *)
VectorStoreEntry ==
    {e \in [id : Ids, text : Texts, image_bytes : Images, metadata : Metas] :
        (e.text = None) # (e.image_bytes = None)}

EntryFields == {"id", "text", "image_bytes", "metadata"}

RECURSIVE SeqsUpTo(_, _)
SeqsUpTo(S, n) ==
    IF n = 0 THEN {<<>>}
    ELSE LET shorter == SeqsUpTo(S, n - 1)
         IN shorter \cup {Append(q, x) : q \in {r \in shorter : Len(r) = n - 1}, x \in S}

Batches == SeqsUpTo(VectorStoreEntry, MaxBatch)

(* entry.model_dump(exclude_none=True): the fields that are not None *)
ModelDump(entry) ==
    [f \in {g \in EntryFields : g = "id" \/ entry[g] # None} |-> entry[f]]

(* VectorStoreEntry.model_validate(payload): absent optional fields are None *)
ModelValidate(payload) ==
    [f \in EntryFields |-> IF f \in DOMAIN payload THEN payload[f] ELSE None]

(* str(entry.id): the string form of a UUID *)
StrUUID(id) == [uuid |-> id]

(* ------------------------------ embedder ------------------------------ *)
EmbedText(text) ==
    IF text = "the cat sat" \/ text = "cat" THEN <<10, 0>> ELSE <<0, 10>>

EmbedImage(image) == <<0, 10>>

HasPayload(entry, embedding_type) ==
    IF embedding_type = TEXT THEN entry.text # None ELSE entry.image_bytes # None

Embed(entry, embedding_type) ==
    IF embedding_type = TEXT THEN EmbedText(entry.text.s) ELSE EmbedImage(entry.image_bytes.s)

(* the index of the last entry of the batch with this identity and the payload *)
LastWithPayload(entries, id, embedding_type) ==
    CHOOSE i \in DOMAIN entries :
        /\ entries[i].id = id /\ HasPayload(entries[i], embedding_type)
        /\ \A j \in DOMAIN entries :
              (entries[j].id = id /\ HasPayload(entries[j], embedding_type)) => j <= i

(* _create_embeddings: identity -> vector, for the entries that carry the
   payload of the embedding type; a later entry of one identity overwrites *)
CreateEmbeddings(entries, embedding_type) ==
    [id \in {entries[i].id : i \in {j \in DOMAIN entries : HasPayload(entries[j], embedding_type)}}
        |-> Embed(entries[LastWithPayload(entries, id, embedding_type)], embedding_type)]


(* --------------------------- options overlay -------------------------- *)
(* dict.get(key, default) *)
DictGet(d, key, default) == IF key \in DOMAIN d THEN d[key] ELSE default

(* the overlay with None taken for "not given" as well *)
OrNoneAsNotGiven(self_dict, other_dict) ==
    [key \in DOMAIN self_dict |->
        IF DictGet(other_dict, key, None) # NOT_GIVEN /\ DictGet(other_dict, key, None) # None
        THEN DictGet(other_dict, key, self_dict[key])
        ELSE self_dict[key]]

(* the overlay with the operands swapped: a given value of self is kept *)
OrSelfWins(self_dict, other_dict) ==
    [key \in DOMAIN self_dict |->
        IF self_dict[key] # NOT_GIVEN
        THEN self_dict[key]
        ELSE DictGet(other_dict, key, self_dict[key])]

(* LLMOptions.__or__: asdict of both operands, then per key of self *)
Or(self_dict, other_dict) ==
    [key \in DOMAIN self_dict |->
        IF DictGet(other_dict, key, None) # NOT_GIVEN
        THEN DictGet(other_dict, key, self_dict[key])
        ELSE self_dict[key]]

(* the overlay done in place: self takes the merged values and is returned *)
OrEffectInPlace(self_dict, other_dict) ==
    [result |-> Or(self_dict, other_dict), self |-> Or(self_dict, other_dict),
     other |-> other_dict, instance |-> "self"]

(* __or__ as a call, with what it leaves of its operands: asdict copies both,
   and the result is a new instance of self.__class__ *)
OrEffect(self_dict, other_dict) ==
    [result |-> Or(self_dict, other_dict), self |-> self_dict,
     other |-> other_dict, instance |-> "new"]

(* ------------------------------ state --------------------------------- *)
VARIABLES
    self,        \* the store instance: the fields __init__ sets
    collection,  \* the backend collection named self.index_name
    points,      \* the points of that collection
    last,        \* the latest call: operation, arguments, outcome
    tasks        \* the store calls in flight at once, each with its position

vars == <<self, collection, points, last, tasks>>

(* the caller awaits one call before it issues the next *)
Idle == last.op = "idle"

Absent == [exists |-> FALSE]
(* the collection created with a fixed metric instead of the configured one *)
VectorParamsCosine(size, distance) == [exists |-> TRUE, size |-> size, distance |-> "Cosine"]

VectorParams(size, distance) == [exists |-> TRUE, size |-> size, distance |-> distance]

COSINE == "Cosine"
DOT == "Dot"

InMemoryParams == [location |-> ":memory:"]

DefaultOptions == {[k |-> Num(1), max_distance |-> None], [k |-> Num(2), max_distance |-> Num(0)]}

(* QdrantVectorStore.__init__ *)
QdrantVectorStore(client, index_name, embedder, embedding_type, distance_method, default_options) ==
    [client |-> client, index_name |-> index_name, embedder |-> embedder,
     embedding_type |-> embedding_type, distance_method |-> distance_method,
     default_options |-> default_options]

(* __reduce__: the arguments handed to _reconstruct *)
Reduce(store) ==
    <<store.client, store.index_name, store.embedder, store.distance_method, store.default_options>>

(* _reconstruct: embedding_type is not passed, so __init__'s default applies *)
Reconstruct(args) ==
    QdrantVectorStore(args[1], args[2], args[3], TEXT, args[4], args[5])

(* ------------------------------ backend ------------------------------- *)
collection_exists == collection.exists

Count == Cardinality(points)

Upsert(pts, p) == {q \in pts : q.id # p.id} \cup {p}

RECURSIVE UploadPoints(_, _)
UploadPoints(pts, batch) ==
    IF batch = <<>> THEN pts ELSE UploadPoints(Upsert(pts, Head(batch)), Tail(batch))

(* points ordered by id, the order of a scan *)
RECURSIVE ById(_)
ById(pts) ==
    IF pts = {} THEN <<>>
    ELSE LET p == CHOOSE q \in pts : \A r \in pts : q.id.uuid <= r.id.uuid
         IN <<p>> \o ById(pts \ {p})

RECURSIVE Lookup(_, _)
(* the value at a dotted path of a payload, None when the path is missing *)
Lookup(value, path) ==
    IF path = <<>> THEN value
    ELSE IF ~IsDict(value) THEN None
    ELSE LET hits == {i \in DOMAIN value.items : value.items[i][1] = <<Head(path)>>}
         IN IF hits = {} THEN None
            ELSE Lookup(value.items[CHOOSE i \in hits : TRUE][2], Tail(path))

PayloadLookup(payload, key) ==
    IF Head(key) \in DOMAIN payload THEN Lookup(payload[Head(key)], Tail(key)) ELSE None

(* a Filter(must=[...]) matches when every FieldCondition does; no filter matches all *)
Matches(payload, qdrant_filter) ==
    qdrant_filter = None \/
    \A i \in DOMAIN qdrant_filter.must :
        PayloadLookup(payload, qdrant_filter.must[i].key) = qdrant_filter.must[i].match

Skip(seq, n) == IF n >= Len(seq) THEN <<>> ELSE SubSeq(seq, n + 1, Len(seq))
Take(seq, n) == IF n >= Len(seq) THEN seq ELSE SubSeq(seq, 1, n)

(* query_points without a query vector: a filtered scan, offset then limit *)
Scroll(qdrant_filter, limit, offset) ==
    Take(Skip(ById({p \in points : Matches(p.payload, qdrant_filter)}), offset), limit)

Similarity(u, v) == (u[1] * v[1] + u[2] * v[2]) \div One

RECURSIVE ByScore(_, _)
ByScore(pts, query) ==
    IF pts = {} THEN <<>>
    ELSE LET p == CHOOSE q \in pts : \A r \in pts :
                    \/ Similarity(q.vector, query) > Similarity(r.vector, query)
                    \/ Similarity(q.vector, query) = Similarity(r.vector, query) /\ q.id.uuid <= r.id.uuid
         IN <<[id |-> p.id, score |-> Similarity(p.vector, query), vector |-> p.vector,
               payload |-> p.payload]>> \o ByScore(pts \ {p}, query)

(* query_points with a query vector: the limit best, at or above the threshold *)
Search(query, limit, score_threshold) ==
    Take(ByScore({p \in points :
                    score_threshold = None \/ Similarity(p.vector, query) >= score_threshold.n},
                 query), limit)

(* -------------------------- filter translator ------------------------- *)
(* d[key] = value on a dict: an existing key keeps its place *)
DictSet(items, key, value) ==
    IF \E i \in DOMAIN items : items[i][1] = key
    THEN [i \in DOMAIN items |-> IF items[i][1] = key THEN <<key, value>> ELSE items[i]]
    ELSE Append(items, <<key, value>>)

RECURSIVE DictUpdate(_, _)
DictUpdate(items, more) ==
    IF more = <<>> THEN items
    ELSE DictUpdate(DictSet(items, Head(more)[1], Head(more)[2]), Tail(more))

RECURSIVE FlattenItems(_, _, _)
FlattenItems(input, parent_key, acc) ==
    IF input = <<>> THEN acc
    ELSE LET k == Head(input)[1]
             v == Head(input)[2]
             new_key == parent_key \o k
         IN FlattenItems(Tail(input), parent_key,
                IF IsDict(v) THEN DictUpdate(acc, FlattenItems(v.items, new_key, <<>>))
                ELSE DictSet(acc, new_key, v))

(* flatten_dict(where): nested keys joined with "." *)
FlattenDict(where) == Dict(FlattenItems(where.items, <<>>, <<>>))

(* the condition without the metadata namespace *)
FieldConditionNoPrefix(key, value) == [key |-> key, match |-> value]

(* FieldCondition(key=f"metadata.{key}", match=MatchValue(value=value)) *)
FieldCondition(key, value) == [key |-> <<"metadata">> \o key, match |-> value]

(* _create_qdrant_filter *)
CreateQdrantFilter(where) ==
    LET flat == FlattenDict(where).items
    IN [must |-> [i \in DOMAIN flat |-> FieldCondition(flat[i][1], flat[i][2])]]

(* ------------------------------- store -------------------------------- *)
(* the point id taken from the payload instead of the identity alone *)
PointStructIdFromPayload(entry, embeddings) ==
    [id |-> StrUUID(IF entry.metadata = MetaX THEN entry.id ELSE entry.id + MaxIds),
     vector |-> embeddings[entry.id], payload |-> ModelDump(entry)]

(* models.PointStruct(id=str(entry.id), vector=embeddings[entry.id], payload=...) *)
PointStruct(entry, embeddings) ==
    [id |-> StrUUID(entry.id), vector |-> embeddings[entry.id], payload |-> ModelDump(entry)]

(* the generator handed to upload_points *)
RECURSIVE Points(_, _)
Points(entries, embeddings) ==
    IF entries = <<>> THEN <<>>
    ELSE (IF Head(entries).id \in DOMAIN embeddings
          THEN <<PointStruct(Head(entries), embeddings)>> ELSE <<>>)
         \o Points(Tail(entries), embeddings)

(* next(iter(embeddings.values())): the vector of the identity inserted first *)
FirstVector(entries, embeddings) ==
    embeddings[entries[CHOOSE i \in DOMAIN entries :
                    /\ entries[i].id \in DOMAIN embeddings
                    /\ \A j \in DOMAIN entries : entries[j].id \in DOMAIN embeddings => i <= j].id]

EmbeddingFailure == "EmbeddingFailure"
StoreWriteFailure == "QdrantException"
StopIteration == "StopIteration"
CollectionNotFound == "CollectionNotFound"
NoFault == "none"

Ok == "ok"

(* store(entries), with the failure the embedder (_create_embeddings) or the
   backend write (upload_points, "Raises: QdrantException") answers with.
   next() on an empty embedding map raises StopIteration. A failed upload of
   these batches, all shorter than one upload batch, writes no point.
   First the same without the `if not entries: return` *)
StoreOutcomeNoEarlyReturn(entries, fault) ==
    IF fault = EmbeddingFailure
    THEN [collection |-> collection, points |-> points, error |-> EmbeddingFailure]
    ELSE LET embeddings == CreateEmbeddings(entries, self.embedding_type)
         IN IF ~collection_exists /\ DOMAIN embeddings = {}
            THEN [collection |-> collection, points |-> points, error |-> StopIteration]
            ELSE LET created == IF collection_exists THEN collection
                                ELSE VectorParams(Len(FirstVector(entries, embeddings)),
                                                  self.distance_method)
                 IN IF fault = StoreWriteFailure
                    THEN [collection |-> created, points |-> points, error |-> StoreWriteFailure]
                    ELSE [collection |-> created,
                          points |-> UploadPoints(points, Points(entries, embeddings)),
                          error |-> Ok]

(* the same with the embedder's failure swallowed *)
StoreOutcomeSwallowsEmbeddingFailure(entries, fault) ==
    IF entries = <<>> \/ fault = EmbeddingFailure
    THEN [collection |-> collection, points |-> points, error |-> Ok]
    ELSE StoreOutcomeNoEarlyReturn(entries, fault)

StoreOutcome(entries, fault) ==
    IF entries = <<>>
    THEN [collection |-> collection, points |-> points, error |-> Ok]
    ELSE IF fault = EmbeddingFailure
    THEN [collection |-> collection, points |-> points, error |-> EmbeddingFailure]
    ELSE LET embeddings == CreateEmbeddings(entries, self.embedding_type)
         IN IF ~collection_exists /\ DOMAIN embeddings = {}
            THEN [collection |-> collection, points |-> points, error |-> StopIteration]
            ELSE LET created == IF collection_exists THEN collection
                                ELSE VectorParams(Len(FirstVector(entries, embeddings)),
                                                  self.distance_method)
                 IN IF fault = StoreWriteFailure
                    THEN [collection |-> created, points |-> points, error |-> StoreWriteFailure]
                    ELSE [collection |-> created,
                          points |-> UploadPoints(points, Points(entries, embeddings)),
                          error |-> Ok]

(* the calls store(entries) issues to the embedder and to the backend, in order *)
StoreCalls(entries, fault) ==
    IF entries = <<>> THEN <<>>
    ELSE IF fault = EmbeddingFailure THEN <<"_create_embeddings">>
    ELSE <<"_create_embeddings", "collection_exists">>
         \o (IF collection_exists THEN <<"upload_points">>
             ELSE IF DOMAIN CreateEmbeddings(entries, self.embedding_type) = {} THEN <<>>
             ELSE <<"create_collection", "upload_points">>)

Store(entries, fault) ==
    /\ entries = <<>> => fault = NoFault
    /\ LET out == StoreOutcome(entries, fault)
       IN /\ collection' = out.collection
          /\ points' = out.points
          /\ last' = [op |-> "store", entries |-> entries, fault |-> fault, error |-> out.error,
                      before |-> points, calls |-> StoreCalls(entries, fault)]
    /\ UNCHANGED <<self, tasks>>

(* ------------------------------ retrieve ------------------------------ *)
(* (self.default_options | options) if options else self.default_options;
   an options object is truthy, None is not *)
MergedOptions(options) ==
    IF options # None THEN Or(self.default_options, options) ELSE self.default_options

(* 1 - merged_options.max_distance if merged_options.max_distance else None *)
ScoreThreshold(merged_options) ==
    IF Truthy(merged_options.max_distance)
    THEN Num(One - merged_options.max_distance.n)
    ELSE None

(* the result with the score turned into a distance *)
VectorStoreResultAsDistance(point) ==
    [entry |-> ModelValidate(point.payload), score |-> One - point.score, vector |-> point.vector]

VectorStoreResult(point) ==
    [entry |-> ModelValidate(point.payload), score |-> point.score, vector |-> point.vector]

(* retrieve(text, options): the search issued (None when none was) and the
   outcome. There is no collection_exists guard: the search goes to the
   backend, which answers a missing collection with an error (cf. remove's
   "Raises: ValueError: If collection ... is not present") *)
RetrieveOutcome(text, options, fault) ==
    LET merged_options == MergedOptions(options)
        score_threshold == ScoreThreshold(merged_options)
        query == [limit |-> merged_options.k, score_threshold |-> score_threshold]
    IN IF fault = EmbeddingFailure
       THEN [merged |-> merged_options, query |-> None, error |-> EmbeddingFailure, results |-> <<>>]
       ELSE IF ~collection_exists
       THEN [merged |-> merged_options, query |-> query, error |-> CollectionNotFound,
             results |-> <<>>]
       ELSE LET found == Search(EmbedText(text), merged_options.k.n, score_threshold)
            IN [merged |-> merged_options, query |-> query, error |-> Ok,
                results |-> [i \in DOMAIN found |-> VectorStoreResult(found[i])]]

(* the calls retrieve issues to the embedder and to the backend, in order *)
RetrieveCalls(fault) ==
    IF fault = EmbeddingFailure THEN <<"embed_text">> ELSE <<"embed_text", "query_points">>

(* what line 172 leaves of its operands, self.default_options and options,
   and which instance merged_options is: without options no merge is done *)
MergeEffect(options) ==
    IF options # None THEN OrEffect(self.default_options, options)
    ELSE [result |-> self.default_options, self |-> self.default_options,
          other |-> options, instance |-> "self"]

Retrieve(text, options, fault) ==
    /\ LET out == RetrieveOutcome(text, options, fault)
           effect == MergeEffect(options)
       IN /\ last' = [op |-> "retrieve", text |-> text, options |-> options, fault |-> fault,
                      merged |-> out.merged, query |-> out.query, error |-> out.error,
                      results |-> out.results, calls |-> RetrieveCalls(fault),
                      options_after |-> effect.other, instance |-> effect.instance]
          /\ self' = [self EXCEPT !.default_options = effect.self]
    /\ UNCHANGED <<collection, points, tasks>>

(* ------------------------------- remove ------------------------------- *)
KeyError == "KeyError"

(* client.delete of PointIdsList(points). remove wraps it in
   contextlib.suppress(KeyError) ("it's ok if a point already doesn't exist"):
   the client may raise KeyError at an id that is not stored, and then the ids
   after it are not reached; or it may pass over such an id (raises = FALSE) *)
RECURSIVE Delete(_, _, _)
Delete(pts, ids, raises) ==
    IF ids = <<>> THEN pts
    ELSE IF \E p \in pts : p.id = Head(ids)
    THEN Delete({p \in pts : p.id # Head(ids)}, Tail(ids), raises)
    ELSE IF raises THEN pts
    ELSE Delete(pts, Tail(ids), raises)

BackendUnavailable == "BackendUnavailable"

(* remove with every exception suppressed *)
RemoveOutcomeSuppressAll(ids, fault) ==
    IF fault = BackendUnavailable \/ ~collection_exists
    THEN [points |-> points, error |-> Ok]
    ELSE [points |-> Delete(points, [i \in DOMAIN ids |-> StrUUID(ids[i])], fault = KeyError),
          error |-> Ok]

(* remove(ids): KeyError is suppressed, the error of a missing collection and
   the failure of a backend that cannot be reached (it deletes nothing) are not *)
RemoveOutcome(ids, fault) ==
    IF fault = BackendUnavailable
    THEN [points |-> points, error |-> BackendUnavailable]
    ELSE IF ~collection_exists
    THEN [points |-> points, error |-> CollectionNotFound]
    ELSE [points |-> Delete(points, [i \in DOMAIN ids |-> StrUUID(ids[i])], fault = KeyError),
          error |-> Ok]

Remove(ids, fault) ==
    /\ LET out == RemoveOutcome(ids, fault)
       IN /\ points' = out.points
          /\ last' = [op |-> "remove", ids |-> ids, fault |-> fault, error |-> out.error,
                      before |-> points, calls |-> <<"delete">>]
    /\ UNCHANGED <<self, collection, tasks>>

(* -------------------------------- list -------------------------------- *)
(* limit or (await self._client.count(...)).count *)
ListLimit(limit) == IF Truthy(limit) THEN limit.n ELSE Count

(* self._create_qdrant_filter(where) if where else None *)
ListFilter(where) == IF Truthy(where) THEN CreateQdrantFilter(where) ELSE None

ValidationError == "ValidationError"

(* the error list ends with: the filter is built only on a PRESENT collection
   and only from a truthy `where`, and there MatchValue(value=...) refuses a
   leaf that is not a str, an int or a bool *)
ListError(where) ==
    IF collection_exists /\ Truthy(where)
          /\ \E i \in DOMAIN FlattenDict(where).items : ~IsScalar(FlattenDict(where).items[i][2])
    THEN ValidationError
    ELSE Ok

(* the calls list issues to the backend, in order: the existence check first,
   the count when limit is falsy, the scan when the filter has been built *)
ListCalls(where, limit) ==
    <<"collection_exists">>
    \o (IF collection_exists /\ ~Truthy(limit) THEN <<"count">> ELSE <<>>)
    \o (IF collection_exists /\ ListError(where) = Ok THEN <<"query_points">> ELSE <<>>)

ListOutcome(where, limit, offset) ==
    IF ~collection_exists \/ ListError(where) # Ok THEN <<>>
    ELSE LET found == Scroll(ListFilter(where), ListLimit(limit), offset)
         IN [i \in DOMAIN found |-> ModelValidate(found[i].payload)]

List(where, limit, offset) ==
    /\ last' = [op |-> "list", where |-> where, limit |-> limit, offset |-> offset,
                error |-> ListError(where), results |-> ListOutcome(where, limit, offset),
                calls |-> ListCalls(where, limit)]
    /\ UNCHANGED <<self, collection, points, tasks>>

(* ------------------------ freeze / reconstruct ------------------------ *)
(* pickle.loads(pickle.dumps(store)): _reconstruct applied to __reduce__'s arguments *)
Unpickle ==
    /\ self' = Reconstruct(Reduce(self))
    /\ last' = [op |-> "reconstruct", before |-> self]
    /\ UNCHANGED <<collection, points, tasks>>

(* the awaited call returns: the caller has its outcome and may call again *)
Return ==
    /\ ~Idle
    /\ last' = [op |-> "idle"]
    /\ UNCHANGED <<self, collection, points, tasks>>

(* --------------------------- specification ---------------------------- *)
RemoveIds == SeqsUpTo(Ids, MaxBatch)

QueryTexts == {"cat", "dog"}

RetrieveOptions ==
    {None} \cup [k : {NOT_GIVEN} \cup {Num(n) : n \in 1..MaxLimit},
                 max_distance : {NOT_GIVEN, None, Num(0), Num(2)}]

(* a filter with a leaf that is a list *)
NonScalarLeaf == Dict(<< <<(<<"category">>), ListValue(<<Str("x")>>)>> >>)

WhereQueries == {None, Dict(<<>>), MetaX, NonScalarLeaf}

Limits == {None} \cup {Num(n) : n \in 0..MaxLimit}

Offsets == 0..MaxLimit

Init ==
    /\ self \in {QdrantVectorStore(InMemoryParams, "index", "embedder", t, d, o) :
                    t \in {TEXT, IMAGE}, d \in {COSINE, DOT}, o \in DefaultOptions}
    /\ collection = Absent
    /\ points = {}
    /\ last = [op |-> "idle"]
    /\ tasks = <<>>

(* the calls a caller that awaits each one can make *)
StoreCall ==
    Idle /\ \E entries \in Batches, fault \in {NoFault, EmbeddingFailure, StoreWriteFailure} :
                Store(entries, fault)

RetrieveCall ==
    Idle /\ \E text \in QueryTexts, options \in RetrieveOptions,
                fault \in {NoFault, EmbeddingFailure} : Retrieve(text, options, fault)

RemoveCall ==
    Idle /\ \E ids \in RemoveIds, fault \in {NoFault, KeyError, BackendUnavailable} :
                Remove(ids, fault)

ListCall ==
    Idle /\ \E where \in WhereQueries, limit \in Limits, offset \in Offsets :
                List(where, limit, offset)

UnpickleCall == Idle /\ Unpickle

Next ==
    \/ StoreCall
    \/ RetrieveCall
    \/ RemoveCall
    \/ ListCall
    \/ UnpickleCall
    \/ Return

Spec == Init /\ [][Next]_vars

(* ------------------- the overlay as a pure function ------------------- *)
OptionValues == {NOT_GIVEN, None, Num(0), Num(2), Num(5)}

Options == [k : OptionValues, max_distance : OptionValues]

(* base | override, called on its own *)
OrCall(base, override) ==
    /\ last' = [op |-> "__or__", self |-> base, other |-> override,
                result |-> OrEffect(base, override).result]
    /\ UNCHANGED <<self, collection, points, tasks>>

InitOne ==
    /\ self = QdrantVectorStore(InMemoryParams, "index", "embedder", TEXT, COSINE,
                                [k |-> Num(1), max_distance |-> None])
    /\ collection = Absent
    /\ points = {}
    /\ last = [op |-> "idle"]
    /\ tasks = <<>>

OrCalls == Idle /\ \E base \in Options, override \in Options : OrCall(base, override)

(* (a | b) | c and a | (b | c), called on their own *)
OrChainCall(a, b, c) ==
    /\ last' = [op |-> "__or__ chain", a |-> a, b |-> b, c |-> c,
                left |-> Or(Or(a, b), c), right |-> Or(a, Or(b, c))]
    /\ UNCHANGED <<self, collection, points, tasks>>

OrChainCalls == Idle /\ \E a \in Options, b \in Options, c \in Options : OrChainCall(a, b, c)

NextOptions ==
    \/ OrCalls
    \/ OrChainCalls
    \/ Return

OptionsSpec == InitOne /\ [][NextOptions]_vars

(* ------------------ the translator as a pure function ----------------- *)
FilterKeys == {<<"a">>, <<"b">>, <<"a", "b">>}
NestedKeys == {<<"a">>, <<"b">>}
Scalars == {Str("x"), Str("y")}

DistinctKeys(items) ==
    \A i, j \in DOMAIN items : items[i][1] = items[j][1] => i = j

(* dicts of scalars, and dicts of scalars and such dicts: keys are unique *)
NestedDicts ==
    {Dict(items) : items \in {q \in SeqsUpTo(NestedKeys \X Scalars, MaxFilterLen) : DistinctKeys(q)}}

WhereDicts ==
    {Dict(items) : items \in {q \in SeqsUpTo(FilterKeys \X (Scalars \cup NestedDicts), MaxFilterLen) :
                                 DistinctKeys(q)}}

CreateQdrantFilterCall(where) ==
    /\ last' = [op |-> "_create_qdrant_filter", where |-> where,
                filter |-> CreateQdrantFilter(where)]
    /\ UNCHANGED <<self, collection, points, tasks>>

CreateQdrantFilterCalls == Idle /\ \E where \in WhereDicts : CreateQdrantFilterCall(where)

NextFilter ==
    \/ CreateQdrantFilterCalls
    \/ Return

FilterSpec == InitOne /\ [][NextFilter]_vars

(* ----------------------- store calls in flight ------------------------ *)
(* Two store calls of one instance run as tasks of one event loop. A task
   runs from one await to the next without interruption: the awaits of store
   are _create_embeddings (136), collection_exists (138) and create_collection
   (140); upload_points (155) is called without await, right after the task
   resumes. The backend acts on a call at the step that issues it. *)
MaxRaceBatch == 2

Tasks == 1..2

(* the entries task t stores: task 1 writes MetaX, task 2 writes MetaY *)
TaskEntries(t) ==
    {e \in VectorStoreEntry : e.metadata = IF t = 1 THEN MetaX ELSE MetaY}

StoreTask(entries) ==
    [pc |-> "embed", entries |-> entries, embeddings |-> <<>>, observed |-> "unknown",
     calls |-> <<>>, error |-> Ok]

(* create_collection answered by wiping an existing collection *)
RecreateCollection(params) == [collection |-> params, points |-> {}]

(* create_collection of a backend that leaves an existing collection as it is *)
CreateCollection(params) ==
    IF collection_exists THEN [collection |-> collection, points |-> points]
    ELSE [collection |-> params, points |-> {}]

(* `if not entries: return`, then await self._create_embeddings(entries) *)
EmbedStep(t) ==
    /\ tasks[t].pc = "embed"
    /\ LET task == tasks[t]
       IN tasks' = [tasks EXCEPT ![t] =
            IF task.entries = <<>> THEN [task EXCEPT !.pc = "done"]
            ELSE [task EXCEPT !.pc = "exists",
                              !.embeddings = CreateEmbeddings(task.entries, self.embedding_type),
                              !.calls = Append(task.calls, "_create_embeddings")]]
    /\ UNCHANGED <<self, collection, points, last>>

(* await self._client.collection_exists(...); when the task resumes on an
   absent collection it reads the vector size, which fails on an empty map *)
ExistsStep(t) ==
    /\ tasks[t].pc = "exists"
    /\ LET task == [tasks[t] EXCEPT !.calls = Append(tasks[t].calls, "collection_exists")]
       IN tasks' = [tasks EXCEPT ![t] =
            IF collection_exists
            THEN [task EXCEPT !.pc = "upload", !.observed = "present"]
            ELSE IF DOMAIN task.embeddings = {}
            THEN [task EXCEPT !.pc = "done", !.observed = "absent", !.error = StopIteration]
            ELSE [task EXCEPT !.pc = "create", !.observed = "absent"]]
    /\ UNCHANGED <<self, collection, points, last>>

(* await self._client.create_collection(...) *)
CreateStep(t) ==
    /\ tasks[t].pc = "create"
    /\ LET out == CreateCollection(
                      VectorParams(Len(FirstVector(tasks[t].entries, tasks[t].embeddings)),
                                   self.distance_method))
       IN /\ collection' = out.collection
          /\ points' = out.points
    /\ tasks' = [tasks EXCEPT ![t] =
            [tasks[t] EXCEPT !.pc = "upload",
                             !.calls = Append(tasks[t].calls, "create_collection")]]
    /\ UNCHANGED <<self, last>>

(* self._client.upload_points(...) *)
UploadStep(t) ==
    /\ tasks[t].pc = "upload"
    /\ points' = UploadPoints(points, Points(tasks[t].entries, tasks[t].embeddings))
    /\ tasks' = [tasks EXCEPT ![t] =
            [tasks[t] EXCEPT !.pc = "done",
                             !.calls = Append(tasks[t].calls, "upload_points")]]
    /\ UNCHANGED <<self, collection, last>>

RaceBatches(t) == SeqsUpTo(TaskEntries(t), MaxRaceBatch)

InitRace ==
    /\ self = QdrantVectorStore(InMemoryParams, "index", "embedder", TEXT, COSINE,
                                [k |-> Num(1), max_distance |-> None])
    /\ collection = Absent
    /\ points = {}
    /\ last = [op |-> "idle"]
    /\ tasks \in {<<StoreTask(a), StoreTask(b)>> : a \in RaceBatches(1), b \in RaceBatches(2)}

NextRace ==
    \/ \E t \in Tasks : EmbedStep(t)
    \/ \E t \in Tasks : ExistsStep(t)
    \/ \E t \in Tasks : CreateStep(t)
    \/ \E t \in Tasks : UploadStep(t)

RaceSpec == InitRace /\ [][NextRace]_vars

(* ------------------- a list call among store calls -------------------- *)
(* list() as a third task beside the two store calls. Its awaits are
   collection_exists (268), count (272, when limit is falsy) and
   query_points (276); the backend answers each at the step that issues it. *)
ListTaskId == Len(<<"store", "store", "list">>)

ListTask(where, limit, offset) ==
    [pc |-> "list_exists", where |-> where, limit |-> limit, offset |-> offset,
     scanned |-> FALSE, at_scan |-> {}, results |-> <<>>, calls |-> <<>>, error |-> Ok]

(* await self._client.collection_exists(...); `return []` when it is absent *)
ListExistsStep(t) ==
    /\ tasks[t].pc = "list_exists"
    /\ LET task == [tasks[t] EXCEPT !.calls = Append(tasks[t].calls, "collection_exists")]
       IN tasks' = [tasks EXCEPT ![t] =
            IF ~collection_exists THEN [task EXCEPT !.pc = "done"]
            ELSE IF Truthy(task.limit) THEN [task EXCEPT !.pc = "list_scan"]
            ELSE [task EXCEPT !.pc = "list_count"]]
    /\ UNCHANGED <<self, collection, points, last>>

(* limit = limit or (await self._client.count(...)).count *)
ListCountStep(t) ==
    /\ tasks[t].pc = "list_count"
    /\ tasks' = [tasks EXCEPT ![t] =
            [tasks[t] EXCEPT !.pc = "list_scan", !.limit = Num(Count),
                             !.calls = Append(tasks[t].calls, "count")]]
    /\ UNCHANGED <<self, collection, points, last>>

(* await self._client.query_points(query_filter, limit, offset, ...), and the
   points the collection holds at that moment *)
ListScanStep(t) ==
    /\ tasks[t].pc = "list_scan"
    /\ LET task == tasks[t]
           found == Scroll(ListFilter(task.where), task.limit.n, task.offset)
       IN tasks' = [tasks EXCEPT ![t] =
            [task EXCEPT !.pc = "done", !.scanned = TRUE, !.at_scan = points,
                         !.results = [i \in DOMAIN found |-> ModelValidate(found[i].payload)],
                         !.calls = Append(task.calls, "query_points")]]
    /\ UNCHANGED <<self, collection, points, last>>

InitListRace ==
    /\ self = QdrantVectorStore(InMemoryParams, "index", "embedder", TEXT, COSINE,
                                [k |-> Num(1), max_distance |-> None])
    /\ collection = Absent
    /\ points = {}
    /\ last = [op |-> "idle"]
    /\ tasks \in {<<StoreTask(a), StoreTask(b), ListTask(None, None, 0)>> :
                      a \in RaceBatches(1), b \in RaceBatches(2)}

NextListRace ==
    \/ \E t \in Tasks : EmbedStep(t)
    \/ \E t \in Tasks : ExistsStep(t)
    \/ \E t \in Tasks : CreateStep(t)
    \/ \E t \in Tasks : UploadStep(t)
    \/ ListExistsStep(ListTaskId)
    \/ ListCountStep(ListTaskId)
    \/ ListScanStep(ListTaskId)

ListRaceSpec == InitListRace /\ [][NextListRace]_vars

(* ------------------ construction from a configuration ----------------- *)
(* a type path is the sequence of its parts: <<module, ":", name>> for
   "module:Class", <<name>> for a bare class name *)
Qualified(module, name) == <<module, ":", name>>
Bare(name) == <<name>>

RephrasersModule == "ragbits.document_search.retrieval.rephrasers"
PromptsModule == "ragbits.document_search.retrieval.rephrasers.prompts"
LiteLLMModule == "ragbits.core.llms.litellm"

(* the registry: the classes a module holds *)
ModuleClasses(module) ==
    CASE module = RephrasersModule ->
             {"NoopQueryRephraser", "LLMQueryRephraser", "MultiQueryRephraser"}
      [] module = "ragbits.document_search.retrieval.rephrasers.noop" -> {"NoopQueryRephraser"}
      [] module = "ragbits.document_search.retrieval.rephrasers.llm" -> {"LLMQueryRephraser"}
      [] module = "ragbits.document_search.retrieval.rephrasers.multi" -> {"MultiQueryRephraser"}
      [] module = PromptsModule -> {"QueryRephraserPrompt", "MultiQueryRephraserPrompt"}
      [] module = LiteLLMModule -> {"LiteLLM"}
      [] OTHER -> {}

Subclasses(base) ==
    CASE base = "QueryRephraser" -> {"NoopQueryRephraser", "LLMQueryRephraser", "MultiQueryRephraser"}
      [] base = "LLM" -> {"LiteLLM"}
      [] base = "Prompt" -> {"QueryRephraserPrompt", "MultiQueryRephraserPrompt"}
      [] OTHER -> {}

InvalidConfigError == [error |-> "InvalidConfigError"]

(* bare names are not looked up in the default module *)
ImportByPathNoDefault(path, default_module) ==
    LET module == IF \E i \in DOMAIN path : path[i] = ":" THEN path[1] ELSE ""
        name == path[Len(path)]
    IN IF name \in ModuleClasses(module) THEN [cls |-> name] ELSE InvalidConfigError

(* import_by_path(path, default_module): "module:Class" names its module, a
   bare name is looked up in the default module *)
ImportByPath(path, default_module) ==
    LET module == IF \E i \in DOMAIN path : path[i] = ":" THEN path[1] ELSE default_module
        name == path[Len(path)]
    IN IF name \in ModuleClasses(module) THEN [cls |-> name] ELSE InvalidConfigError

(* LLM.subclass_from_config(config["llm"]) *)
LLMSubclassFromConfig(config) ==
    LET found == ImportByPath(config.type, "ragbits.core.llms")
    IN IF found = InvalidConfigError \/ ~(found.cls \in Subclasses("LLM")) THEN InvalidConfigError
       ELSE [class |-> found.cls, model_name |-> config.config.model_name]

DefaultPrompt(cls) ==
    IF cls = "MultiQueryRephraser" THEN "MultiQueryRephraserPrompt" ELSE "QueryRephraserPrompt"

DefaultN == 5

(* the from_config of the rephraser classes: nested values are constructed *)
FromConfig(cls, config) ==
    IF cls = "NoopQueryRephraser" THEN [class |-> cls]
    ELSE LET llm == LLMSubclassFromConfig(config.llm)
             prompt == IF "prompt" \in DOMAIN config
                       THEN ImportByPath(config.prompt.type, PromptsModule)
                       ELSE [cls |-> DefaultPrompt(cls)]
         IN IF llm = InvalidConfigError \/ prompt = InvalidConfigError THEN InvalidConfigError
            ELSE IF cls = "LLMQueryRephraser"
            THEN [class |-> cls, _llm |-> llm, _prompt |-> prompt.cls]
            ELSE [class |-> cls, _llm |-> llm, _prompt |-> prompt.cls,
                  _n |-> IF "n" \in DOMAIN config THEN config.n ELSE DefaultN]

(* QueryRephraser.subclass_from_config(config) *)
SubclassFromConfig(config) ==
    LET found == ImportByPath(config.type, RephrasersModule)
    IN IF found = InvalidConfigError \/ ~(found.cls \in Subclasses("QueryRephraser"))
       THEN InvalidConfigError
       ELSE FromConfig(found.cls, config.config)

ModelNames == {"some_model", "gpt-4o", "claude"}

LLMConfigs ==
    {[type |-> Qualified(LiteLLMModule, "LiteLLM"), config |-> [model_name |-> m]] : m \in ModelNames}

PromptConfigs ==
    {<<>>} \cup {[prompt |-> [type |-> Bare(c)]] : c \in Subclasses("Prompt")}

NConfigs == {<<>>} \cup {[n |-> n] : n \in 1..MaxN}

RephraserConfigs ==
    {[type |-> t, config |-> <<>>] :
        t \in {Qualified(RephrasersModule, "NoopQueryRephraser"), Bare("NoopQueryRephraser"),
               Bare("UnknownRephraser"), Qualified(LiteLLMModule, "LiteLLM")}}
    \cup {[type |-> t, config |-> [llm |-> l] @@ p] :
            t \in {Qualified("ragbits.document_search.retrieval.rephrasers.llm", "LLMQueryRephraser"),
                   Bare("LLMQueryRephraser")},
            l \in LLMConfigs, p \in PromptConfigs}
    \cup {[type |-> t, config |-> [llm |-> l] @@ p @@ n] :
            t \in {Qualified("ragbits.document_search.retrieval.rephrasers.multi", "MultiQueryRephraser"),
                   Bare("MultiQueryRephraser")},
            l \in LLMConfigs, p \in PromptConfigs, n \in NConfigs}

SubclassFromConfigCall(config) ==
    /\ last' = [op |-> "subclass_from_config", config |-> config,
                result |-> SubclassFromConfig(config)]
    /\ UNCHANGED <<self, collection, points, tasks>>

SubclassFromConfigCalls ==
    Idle /\ \E config \in RephraserConfigs : SubclassFromConfigCall(config)

NextConfig ==
    \/ SubclassFromConfigCalls
    \/ Return

ConfigSpec == InitOne /\ [][NextConfig]_vars

(* ============================== claims ================================ *)
(* what list() with no filter, no limit and offset 0 returns in this state *)
Listed == ListOutcome(None, None, 0)

ListedWith(id) == {i \in DOMAIN Listed : Listed[i].id = id}

(* the index of the last entry of the batch with this identity *)
LastOf(entries, id) ==
    CHOOSE i \in DOMAIN entries :
        entries[i].id = id /\ \A j \in DOMAIN entries : entries[j].id = id => j <= i

(* C1: the collection never holds two entries of one identity, and after a
   store call that succeeded, every identity the call stored (every identity
   of its embedding map) is listed exactly once, with the metadata of the
   last entry of the batch that has this identity: an earlier version,
   stored by an earlier call or earlier in the batch, is replaced. *)
C1_IdempotentUpsert ==
    /\ \A p, q \in points : p.payload.id = q.payload.id => p = q
    /\ (last.op = "store" /\ last.error = Ok) =>
          \A id \in DOMAIN CreateEmbeddings(last.entries, self.embedding_type) :
              /\ Cardinality(ListedWith(id)) = 1
              /\ \A i \in ListedWith(id) :
                    Listed[i].metadata = last.entries[LastOf(last.entries, id)].metadata

(* a store that replaced the version an earlier call had stored under other metadata *)
C1_Witness ==
    /\ last.op = "store" /\ last.error = Ok
    /\ \E p \in last.before, id \in DOMAIN CreateEmbeddings(last.entries, self.embedding_type) :
          /\ p.payload.id = id
          /\ p.payload.metadata # last.entries[LastOf(last.entries, id)].metadata
          /\ \E i \in ListedWith(id) : Listed[i].metadata # p.payload.metadata

(* C2: on an ABSENT collection list() and retrieve(text) return an empty
   sequence without an error, and the collection is ABSENT afterwards. *)
C2_EmptyCollection ==
    [][(~collection.exists /\ (last'.op = "list" \/ (last'.op = "retrieve" /\ last'.fault = NoFault)))
          => (last'.error = Ok /\ last'.results = <<>> /\ ~collection'.exists)]_vars

(* C3: a store call the embedder and the backend do not fail ends without an
   error in every collection state and for every batch; it writes every
   entry whose identity is in the embedding map (the last one of each
   identity is listed afterwards) and puts no other entry into the list. *)
C3_EmbeddingTypeExclusion ==
    [][(last'.op = "store" /\ last'.fault = NoFault) =>
          LET entries == last'.entries
              embeddings == CreateEmbeddings(entries, self.embedding_type)
              before == Range(Listed)
              after == Range(Listed')
          IN /\ last'.error = Ok
             /\ \A i \in DOMAIN entries :
                   IF entries[i].id \in DOMAIN embeddings
                   THEN entries[LastOf(entries, entries[i].id)] \in after
                   ELSE entries[i] \in after => entries[i] \in before]_vars

(* C4: remove on a PRESENT collection of a backend that can be reached ends
   without an error and deletes exactly the stored ones among the identities
   given: with none of them stored the points stay as they were, and every
   other point stays. *)
C4_IdempotentDelete ==
    [][(last'.op = "remove" /\ collection.exists /\ last'.fault # BackendUnavailable) =>
          /\ last'.error = Ok
          /\ points' = {p \in points : \A i \in DOMAIN last'.ids : p.id # StrUUID(last'.ids[i])}]_vars

(* C5: the collection becomes PRESENT only by a store call of at least one
   entry that succeeds; a store call of no entry or one that fails leaves
   the collection as it was; a PRESENT collection stays PRESENT. *)
C5_CollectionLifecycle ==
    [][/\ (~collection.exists /\ collection'.exists) =>
              (last'.op = "store" /\ last'.error = Ok /\ Len(last'.entries) >= 1)
       /\ (last'.op = "store" /\ (last'.entries = <<>> \/ last'.error # Ok)) =>
              collection'.exists = collection.exists
       /\ collection.exists => collection'.exists]_vars

(* C6: base | override has the fields of base, and each field is base's value
   when override's is the NotGiven sentinel and override's value otherwise,
   an explicit None or zero included. *)
C6_OptionsOverlay ==
    last.op = "__or__" =>
        /\ DOMAIN last.result = DOMAIN last.self
        /\ \A key \in DOMAIN last.self :
              last.result[key] = IF last.other[key] = NOT_GIVEN THEN last.self[key]
                                 ELSE last.other[key]

(* {k: 5, max_distance: unset} | {k: unset, max_distance: 0.2} = {k: 5, max_distance: 0.2},
   and an explicit None that overrode a value *)
C6_Witness ==
    /\ last.op = "__or__"
    /\ last.self = [k |-> Num(5), max_distance |-> NOT_GIVEN]
    /\ last.other = [k |-> NOT_GIVEN, max_distance |-> Num(2)]
    /\ last.result = [k |-> Num(5), max_distance |-> Num(2)]

(* C7: a retrieve that issues its search passes score_threshold = 1 - max_distance
   for every merged max_distance that is a number, 0 included, and passes no
   threshold only when the merged max_distance is unset. *)
C7_DistanceThreshold ==
    (last.op = "retrieve" /\ last.query # None /\ last.error = Ok) =>
        IF DOMAIN last.merged.max_distance = {"n"}
        THEN last.query.score_threshold = Num(One - last.merged.max_distance.n)
        ELSE last.query.score_threshold = None

(* C8: with n entries stored, list(limit=s, offset=0) and list(limit=n-s, offset=s)
   are disjoint and together hold every stored entry once, for every split
   0 <= s <= n; with limit unset list returns the filtered entries after offset. *)
C8_Pagination ==
    (last.op = "list" /\ collection.exists) =>
        /\ (last.where = None /\ last.offset = 0 /\ last.limit # None /\ last.limit.n <= Count) =>
              LET head == last.results
                  rest == ListOutcome(None, Num(Count - last.limit.n), last.limit.n)
              IN /\ Range(head) \cap Range(rest) = {}
                 /\ Range(head) \cup Range(rest) = Range(Listed)
                 /\ Len(head) + Len(rest) = Count
        /\ last.limit = None =>
              last.results = Skip(ListOutcome(last.where, Num(Count + 1), 0), last.offset)

(* C9: the instance rebuilt from __reduce__'s tuple has the index name, the
   embedder, the distance method, the default options and the embedding type
   of the original. *)
C9_ReduceRoundTrip ==
    last.op = "reconstruct" =>
        /\ self.index_name = last.before.index_name
        /\ self.embedder = last.before.embedder
        /\ self.distance_method = last.before.distance_method
        /\ self.default_options = last.before.default_options
        /\ self.embedding_type = last.before.embedding_type

(* the leaves of a nested filter in iteration order, each with the keys on its path *)
RECURSIVE Leaves(_, _)
Leaves(items, path) ==
    IF items = <<>> THEN <<>>
    ELSE LET k == Head(items)[1]
             v == Head(items)[2]
         IN (IF IsDict(v) THEN Leaves(v.items, path \o k) ELSE << <<path \o k, v>> >>)
            \o Leaves(Tail(items), path)

(* the condition the claim names for a leaf: metadata.<path> == value *)
ConditionOf(leaf) == [key |-> <<"metadata">> \o leaf[1], match |-> leaf[2]]

(* C10 as stated: the translated filter holds exactly one condition per leaf
   of the nested filter, metadata.<path joined with "."> == <leaf value>,
   and no other condition. *)
C10_OneConditionPerLeaf ==
    last.op = "_create_qdrant_filter" =>
        LET leaves == Leaves(last.where.items, <<>>)
            must == last.filter.must
        IN /\ \A j \in DOMAIN leaves :
                 Cardinality({i \in DOMAIN must : must[i] = ConditionOf(leaves[j])}) = 1
           /\ \A i \in DOMAIN must : \E j \in DOMAIN leaves : must[i] = ConditionOf(leaves[j])

(* C10, amended: the translated filter holds exactly one condition per
   distinct dotted path of a leaf, metadata.<path> == the value of the last
   leaf with that path; so with pairwise distinct paths it holds exactly one
   condition per leaf, metadata.<path> == <leaf value>. *)
C10_OneConditionPerPath ==
    last.op = "_create_qdrant_filter" =>
        LET leaves == Leaves(last.where.items, <<>>)
            must == last.filter.must
            LastAt(path) == CHOOSE j \in DOMAIN leaves :
                /\ leaves[j][1] = path
                /\ \A m \in DOMAIN leaves : leaves[m][1] = path => m <= j
        IN /\ \A i, m \in DOMAIN must : must[i].key = must[m].key => i = m
           /\ \A i \in DOMAIN must : \E j \in DOMAIN leaves :
                 must[i] = ConditionOf(leaves[LastAt(leaves[j][1])])
           /\ \A j \in DOMAIN leaves : \E i \in DOMAIN must :
                 must[i] = ConditionOf(leaves[LastAt(leaves[j][1])])
           /\ (\A j, m \in DOMAIN leaves : leaves[j][1] = leaves[m][1] => j = m) =>
                 /\ Len(must) = Len(leaves)
                 /\ \A j \in DOMAIN leaves :
                       Cardinality({i \in DOMAIN must : must[i] = ConditionOf(leaves[j])}) = 1

(* {"a": {"b": "x"}, "b": "y"} translated to metadata.a.b == "x" AND metadata.b == "y" *)
C10_Witness ==
    /\ last.op = "_create_qdrant_filter"
    /\ last.where = Dict(<< <<(<<"a">>), Dict(<< <<(<<"b">>), Str("x")>> >>)>>,
                           <<(<<"b">>), Str("y")>> >>)
    /\ last.filter = [must |-> << [key |-> <<"metadata", "a", "b">>, match |-> Str("x")],
                                 [key |-> <<"metadata", "b">>, match |-> Str("y")] >>]

(* a leaf of the filter is not a scalar *)
InvalidFilter(where) ==
    where # None /\ \E i \in DOMAIN Leaves(where.items, <<>>) :
                        ~IsScalar(Leaves(where.items, <<>>)[i][2])

(* C11: a list call with a filter that has a non-scalar leaf fails with an
   error, and it has issued no backend operation: no existence check, no
   count, no scan. *)
C11_InvalidFilterRejected ==
    (last.op = "list" /\ InvalidFilter(last.where)) =>
        /\ last.error # Ok
        /\ last.calls = <<>>

(* C12: a retrieve that succeeds returns at most k results, each built from
   one point of the collection (no point twice) and carrying that point's
   entry, its score against the query and its vector; with a single point
   stored, k = 1 and max_distance unset it returns exactly one result, the
   stored entry. *)
C12_RoundTrip ==
    (last.op = "retrieve" /\ last.error = Ok) =>
        LET results == last.results
        IN /\ Len(results) <= last.merged.k.n
           /\ \A i \in DOMAIN results : \E p \in points :
                 /\ p.id = StrUUID(results[i].entry.id)
                 /\ results[i].entry = ModelValidate(p.payload)
                 /\ results[i].vector = p.vector
                 /\ results[i].score = Similarity(p.vector, EmbedText(last.text))
           /\ \A i, j \in DOMAIN results : results[i].entry.id = results[j].entry.id => i = j
           /\ (Cardinality(points) = 1 /\ last.merged.k = Num(1) /\ last.merged.max_distance = None) =>
                 /\ Len(results) = 1
                 /\ \A p \in points : results[1].entry.id = p.payload.id

(* {id: 1, text: "the cat sat"} stored alone, then retrieve("cat", k=1) *)
C12_Witness ==
    /\ last.op = "retrieve" /\ last.error = Ok /\ last.text = "cat"
    /\ last.merged = [k |-> Num(1), max_distance |-> None]
    /\ \E p \in points : points = {p} /\ p.payload.id = 1 /\ p.payload.text = Str("the cat sat")
    /\ Len(last.results) = 1
    /\ last.results[1].entry.id = 1
    /\ last.results[1].score = One

(* C13: the step that creates the collection is a store call, and it gives
   the collection the dimensionality of the first embedded vector of that
   call and the distance metric the store is configured with; once the
   collection is PRESENT no store, retrieve, remove or list call issues
   create_collection or changes its parameters. *)
C13_ParamsFixedAtCreation ==
    [][/\ (~collection.exists /\ collection'.exists) =>
              /\ last'.op = "store"
              /\ "create_collection" \in Range(last'.calls)
              /\ collection'.distance = self.distance_method
              /\ \E i \in DOMAIN last'.entries :
                    /\ HasPayload(last'.entries[i], self.embedding_type)
                    /\ \A j \in 1..(i - 1) : ~HasPayload(last'.entries[j], self.embedding_type)
                    /\ collection'.size = Len(Embed(last'.entries[i], self.embedding_type))
       /\ collection.exists =>
              /\ collection' = collection
              /\ last'.op \in {"store", "retrieve", "remove", "list"} =>
                    ~("create_collection" \in Range(last'.calls))]_vars

(* a second store that wrote into the collection an earlier store had created
   with the Dot metric *)
C13_Witness ==
    /\ last.op = "store" /\ last.error = Ok
    /\ last.before # {}
    /\ "upload_points" \in Range(last.calls)
    /\ self.distance_method = DOT
    /\ collection = VectorParams(2, DOT)

(* C14: store([]) issues no call to the embedder and none to the backend, ends
   without an error and leaves the collection and its points as they were. *)
C14_EmptyStoreNoOp ==
    [][(last'.op = "store" /\ last'.entries = <<>>) =>
          /\ last'.calls = <<>>
          /\ last'.error = Ok
          /\ collection' = collection
          /\ points' = points]_vars

(* store([]) on an ABSENT collection, which stayed ABSENT *)
C14_Witness ==
    /\ last.op = "store" /\ last.entries = <<>> /\ last.calls = <<>>
    /\ ~collection.exists

(* C15: a store call whose embedding call fails ends with that failure, has
   called the embedder once and the backend not at all, and leaves the
   collection (ABSENT stays ABSENT) and its points as they were. *)
C15_NoPartialSuccess ==
    [][(last'.op = "store" /\ last'.fault = EmbeddingFailure) =>
          /\ last'.error = EmbeddingFailure
          /\ last'.calls = <<"_create_embeddings">>
          /\ collection' = collection
          /\ points' = points]_vars

(* a store of two entries whose embedding failed on an ABSENT collection *)
C15_Witness ==
    /\ last.op = "store" /\ last.fault = EmbeddingFailure /\ last.error = EmbeddingFailure
    /\ Len(last.entries) = 2
    /\ ~collection.exists /\ points = {}

(* the class a type path names *)
ClassNamed(path) == path[Len(path)]

(* C16: for a config whose type names a rephraser class, as "module:Class" or
   as a bare name of the default module, subclass_from_config returns an
   instance of that class, with the llm built from its nested config (its
   class and model_name), n as given and the prompt class the config names. *)
C16_SubclassFromConfig ==
    (last.op = "subclass_from_config"
        /\ ClassNamed(last.config.type) \in Subclasses("QueryRephraser")) =>
        LET config == last.config.config
            result == last.result
        IN /\ result # InvalidConfigError
           /\ result.class = ClassNamed(last.config.type)
           /\ "llm" \in DOMAIN config =>
                 /\ result._llm.class = ClassNamed(config.llm.type)
                 /\ result._llm.model_name = config.llm.config.model_name
           /\ "n" \in DOMAIN config => result._n = config.n
           /\ "prompt" \in DOMAIN config => result._prompt = ClassNamed(config.prompt.type)

(* "...rephrasers.multi:MultiQueryRephraser" with the llm LiteLLM "some_model",
   n = 4 and the prompt given by the bare name "MultiQueryRephraserPrompt" *)
C16_Witness ==
    /\ last.op = "subclass_from_config"
    /\ last.config =
          [type |-> Qualified("ragbits.document_search.retrieval.rephrasers.multi",
                              "MultiQueryRephraser"),
           config |-> [llm |-> [type |-> Qualified(LiteLLMModule, "LiteLLM"),
                                config |-> [model_name |-> "some_model"]],
                       n |-> 4,
                       prompt |-> [type |-> Bare("MultiQueryRephraserPrompt")]]]
    /\ last.result = [class |-> "MultiQueryRephraser",
                      _llm |-> [class |-> "LiteLLM", model_name |-> "some_model"],
                      _n |-> 4, _prompt |-> "MultiQueryRephraserPrompt"]

(* the identities of task t's entries that carry the payload of the embedding type *)
EmbeddableIds(t) == DOMAIN CreateEmbeddings(tasks[t].entries, self.embedding_type)

(* C17: when two store calls that each carry an embeddable entry have run
   concurrently on a collection that was ABSENT, in whatever interleaving,
   both have ended without an error, the collection is PRESENT, and it
   holds exactly one point per identity embedded by either call, carrying
   the entry one of the two calls wrote last for that identity, and no
   other point. *)
C17_ConcurrentFirstWriters ==
    (tasks # <<>> /\ \A t \in DOMAIN tasks : tasks[t].pc = "done" /\ EmbeddableIds(t) # {}) =>
        /\ \A t \in DOMAIN tasks : tasks[t].error = Ok
        /\ collection.exists
        /\ \A t \in DOMAIN tasks : \A id \in EmbeddableIds(t) :
              Cardinality({p \in points : p.payload.id = id}) = 1
        /\ \A p \in points : \E t \in DOMAIN tasks :
              /\ p.payload.id \in EmbeddableIds(t)
              /\ p.id = StrUUID(p.payload.id)
              /\ p.payload = ModelDump(tasks[t].entries[LastOf(tasks[t].entries, p.payload.id)])

(* both calls observed the collection absent and both issued create_collection;
   the collection holds identity 1 as written by task 1 and identity 2 as
   written by task 2 *)
C17_Witness ==
    /\ tasks # <<>>
    /\ \A t \in DOMAIN tasks :
          /\ tasks[t].pc = "done"
          /\ tasks[t].observed = "absent"
          /\ "create_collection" \in Range(tasks[t].calls)
    /\ collection.exists
    /\ \E p, q \in points :
          /\ p.payload.id = 1 /\ p.payload.metadata = MetaX
          /\ q.payload.id = 2 /\ q.payload.metadata = MetaY

(* C18: (a | b) | c equals a | (b | c), and each field of the result is the
   value of the rightmost of a, b, c whose field is not the NotGiven sentinel;
   the sentinel is in the result only when all three carry it. *)
C18_OverlayAssociative ==
    last.op = "__or__ chain" =>
        /\ last.left = last.right
        /\ DOMAIN last.left = DOMAIN last.a
        /\ \A key \in DOMAIN last.a :
              /\ last.left[key] = IF last.c[key] # NOT_GIVEN THEN last.c[key]
                                  ELSE IF last.b[key] # NOT_GIVEN THEN last.b[key]
                                  ELSE last.a[key]
              /\ last.left[key] = NOT_GIVEN =>
                    (last.a[key] = NOT_GIVEN /\ last.b[key] = NOT_GIVEN /\ last.c[key] = NOT_GIVEN)

(* {k: 5} | {max_distance: 0.2} | {k: None}: the explicit None of the rightmost
   operand wins for k, max_distance comes from the middle one *)
C18_Witness ==
    /\ last.op = "__or__ chain"
    /\ last.a = [k |-> Num(5), max_distance |-> NOT_GIVEN]
    /\ last.b = [k |-> NOT_GIVEN, max_distance |-> Num(2)]
    /\ last.c = [k |-> None, max_distance |-> NOT_GIVEN]
    /\ last.left = [k |-> None, max_distance |-> Num(2)]
    /\ last.right = [k |-> None, max_distance |-> Num(2)]

(* C19: no step changes the store's default options, so they stay the ones
   given at construction; a retrieve with per-call options merges them into
   a new instance and leaves the options it was given as they were, and a
   retrieve without options uses the default options themselves. *)
C19_OptionsNotMutated ==
    [][/\ self'.default_options = self.default_options
       /\ last'.op = "retrieve" =>
              /\ last'.options_after = last'.options
              /\ last'.options # None => last'.instance = "new"
              /\ last'.options = None => last'.merged = self.default_options]_vars

(* a retrieve with the override {k: 2, max_distance: 0.2} on a store whose
   defaults are {k: 1, max_distance: None}: merged is the override, the
   defaults are as before *)
C19_Witness ==
    /\ last.op = "retrieve"
    /\ last.options = [k |-> Num(2), max_distance |-> Num(2)]
    /\ last.merged = [k |-> Num(2), max_distance |-> Num(2)]
    /\ self.default_options = [k |-> Num(1), max_distance |-> None]

(* C20: a remove whose backend delete fails for another reason than a missing
   identity (the collection is ABSENT, or the backend cannot be reached) ends
   with that error; it has issued the delete and nothing else, the collection
   is as it was (ABSENT stays ABSENT) and so is every stored point. A delete
   that only meets missing identities ends without an error. *)
C20_RemoveSuppressesOnlyMissing ==
    [][last'.op = "remove" =>
          /\ (~collection.exists \/ last'.fault = BackendUnavailable) =>
                /\ last'.error \in {CollectionNotFound, BackendUnavailable}
                /\ last'.calls = <<"delete">>
                /\ collection' = collection
                /\ points' = points
          /\ (collection.exists /\ last'.fault = KeyError) => last'.error = Ok]_vars

(* remove([1]) on an ABSENT collection, with a backend that is reachable,
   ended with the backend's error *)
C20_Witness ==
    /\ last.op = "remove" /\ last.ids = <<1>> /\ last.fault = NoFault
    /\ ~collection.exists
    /\ last.error = CollectionNotFound

(* C21: a list call given a limit L >= 0, L = 0 included, returns at most L
   entries; only a call without a limit returns up to the collection's count. *)
C21_ExplicitLimit ==
    (last.op = "list" /\ last.limit # None) => Len(last.results) <= last.limit.n

(* C22: a list call with limit unset, no filter and offset 0 that has run
   its scan, with store calls of other tasks interleaved between its
   existence check, its count read and its scan, returns every entry the
   collection held at the moment of the scan, each once. *)
C22_ListUnderInterleaving ==
    \A t \in DOMAIN tasks :
        ("scanned" \in DOMAIN tasks[t] /\ tasks[t].scanned) =>
            /\ Range(tasks[t].results) = {ModelValidate(p.payload) : p \in tasks[t].at_scan}
            /\ Len(tasks[t].results) = Cardinality(tasks[t].at_scan)
=============================================================================
